---- MODULE Spec2Model ----
(***************************************************************************)
(* The bet ledger of main.py: the SQLite table `bets`, the operations of   *)
(* class Database on it, the payout calculators and the statistics         *)
(* queries.                                                                *)
(*                                                                         *)
(* Numbers.  The columns odds, amount and potential_win are REAL and the   *)
(* Python values are floats, so every arithmetic result is rounded.  A     *)
(* float is modelled as an integer number of units of 1/Scale that has at  *)
(* most Precision significant bits; every operation computes the exact     *)
(* result and rounds it to the nearest such number, ties to even, as       *)
(* IEEE-754 does (binary64 has 53 significant bits; Precision is scaled    *)
(* down so that rounding is reachable with small numbers).                 *)
(***************************************************************************)
EXTENDS Integers, Sequences, FiniteSets

VARIABLES
    bets,      \* the table: rowid -> row
    seq,       \* sqlite_sequence: the largest rowid ever assigned (AUTOINCREMENT)
    now,       \* the wall clock read by datetime.now()
    last,      \* the last Database call: what it was given and what came back
    issued,    \* the ids add_bet has returned so far, oldest first
    calc,      \* the calculator harness: inputs and both calculators' outputs
    tty        \* the terminal: the latest menu choice, what was typed and shown

vars == <<bets, seq, now, last, issued, calc, tty>>

--------------------------------------------------------------------------
(* Bounds *)

\* the number of add_bet calls in one run
MaxAdds == 2
\* significant bits of a float
Precision == 7
\* fractional bits of the unit: a unit is 1/2^FracBits
FracBits == 4
\* the number of wagers placed in a run of add and resolve only
MaxWagers == 3

--------------------------------------------------------------------------
(* Floats *)

RECURSIVE Pow2(_)
Pow2(k) == IF k <= 0 THEN 1 ELSE 2 * Pow2(k - 1)

RECURSIVE BitLen(_)
BitLen(n) == IF n <= 0 THEN 0 ELSE 1 + BitLen(n \div 2)

Abs(x) == IF x < 0 THEN -x ELSE x

Scale == Pow2(FracBits)

\* the float of the integer literal n
Flt(n) == n * Scale

\* num/den (den > 0) in units, rounded to Precision significant bits,
\* ties to even
RoundRat(num, den) ==
    LET a    == Abs(num)
        k    == BitLen(a \div den)
        step == IF k > Precision THEN Pow2(k - Precision) ELSE 1
        d    == den * step
        m    == a \div d
        r    == a % d
        up   == (2 * r > d) \/ (2 * r = d /\ m % 2 = 1)
        mag  == (IF up THEN m + 1 ELSE m) * step
    IN  IF num < 0 THEN -mag ELSE mag

FAdd(x, y) == RoundRat(x + y, 1)
FNeg(x) == -x
FMul(x, y) == RoundRat(x * y, Scale)
\* y # 0; Python raises ZeroDivisionError otherwise
FDiv(x, y) == IF y < 0 THEN RoundRat(-(x * Scale), -y) ELSE RoundRat(x * Scale, y)

Representable(x) == RoundRat(x, 1) = x

--------------------------------------------------------------------------
(* The payout calculators *)

\* the favourite's formula taken from the underdog's: |odds| / 100
Bet_calculate_abs_odds(odds, amount) ==
    FMul(FDiv(Abs(odds), Flt(100)), amount)

\* Bet._calculate_potential_win
Bet_calculate_potential_win(odds, amount) ==
    IF odds >= 0
    THEN FMul(FDiv(odds, Flt(100)), amount)
    ELSE FMul(FDiv(Flt(100), Abs(odds)), amount)

\* the underdog's formula applied to every odds: |odds| / 100
Database_calculate_abs_odds(odds, amount) ==
    FMul(FDiv(Abs(odds), Flt(100)), amount)

\* Database._calculate_potential_win
Database_calculate_potential_win(odds, amount) ==
    IF odds >= 0
    THEN FMul(FDiv(odds, Flt(100)), amount)
    ELSE FMul(FDiv(Flt(100), Abs(odds)), amount)

\* what Bet._calculate_potential_win raises: it has no raise statement and
\* no validation, so only a division by zero can stop it
Bet_calculate_raised(odds, amount) ==
    IF odds >= 0
    THEN IF Flt(100) = 0 THEN "ZeroDivisionError" ELSE "none"
    ELSE IF Abs(odds) = 0 THEN "ZeroDivisionError" ELSE "none"

\* what Database._calculate_potential_win raises
Database_calculate_raised(odds, amount) ==
    IF odds >= 0
    THEN IF Flt(100) = 0 THEN "ZeroDivisionError" ELSE "none"
    ELSE IF Abs(odds) = 0 THEN "ZeroDivisionError" ELSE "none"

--------------------------------------------------------------------------
(* The table *)

\* the column `result`: NULL, 1 and 0
Pending == "Pending"
Won == "Won"
Lost == "Lost"

\* rowids of which a caller may speak
Ids == 1..MaxAdds

\* what a caller may pass as (sport, team, odds, amount): two well-formed
\* wagers, and one wager for each way an argument can be malformed
BetInputs ==
    { [sport |-> "NFL", team |-> "Eagles", odds |-> Flt(150), amount |-> Flt(100)],
      [sport |-> "NBA", team |-> "Lakers", odds |-> Flt(-200), amount |-> Flt(50)],
      [sport |-> "", team |-> "Eagles", odds |-> Flt(150), amount |-> Flt(100)],
      [sport |-> "NFL", team |-> "", odds |-> Flt(150), amount |-> Flt(100)],
      [sport |-> "NFL", team |-> "Eagles", odds |-> 0, amount |-> Flt(100)],
      [sport |-> "NFL", team |-> "Eagles", odds |-> Flt(150), amount |-> Flt(-50)] }

\* how far datetime.now() has moved since the call before
Ticks == {1}

NoCall == [op |-> "none", id |-> 0, ret |-> "None", raised |-> "none", io |-> "ok"]
\* nothing chosen from the menu yet
NoTty == [menu |-> 0, typed |-> <<>>, shown |-> [text |-> "Welcome to the Sports Betting Tracker!"]]
CalcIdle == [pc |-> "idle", odds |-> 0, amount |-> 0,
             bet |-> 0, bet_raised |-> "none", db |-> 0, db_raised |-> "none"]

EmptyTable == [i \in {} |-> 0]

\* Bet.__init__: the object the caller hands to add_bet
Bet(sport, team, odds, amount, date) ==
    [sport |-> sport, team |-> team, odds |-> odds, amount |-> amount,
     result |-> Pending,
     potential_win |-> Bet_calculate_potential_win(odds, amount),
     date |-> date]

\* INTEGER PRIMARY KEY without AUTOINCREMENT: one more than the largest
\* rowid the table holds now
NextRowidOfTable(b, sq) ==
    (IF DOMAIN b = {} THEN 0
     ELSE CHOOSE x \in DOMAIN b : \A y \in DOMAIN b : y <= x) + 1

\* id INTEGER PRIMARY KEY AUTOINCREMENT: one more than the largest rowid
\* the table has ever held
NextRowid(b, sq) ==
    LET top == IF DOMAIN b = {} THEN 0
               ELSE CHOOSE x \in DOMAIN b : \A y \in DOMAIN b : y <= x
    IN  (IF sq > top THEN sq ELSE top) + 1

\* INSERT INTO bets (sport, team, odds, amount, potential_win, date):
\* result is not among the columns and is stored NULL
InsertRow(b, id, bet) ==
    [i \in DOMAIN b \cup {id} |->
        IF i = id
        THEN [sport |-> bet.sport, team |-> bet.team, odds |-> bet.odds,
              amount |-> bet.amount, potential_win |-> bet.potential_win,
              result |-> Pending, date |-> bet.date]
        ELSE b[i]]

\* the DELETE without its `id = ?`
DeleteMatchesEveryPending(b, bet_id) == {i \in DOMAIN b : b[i].result = Pending}

\* DELETE FROM bets WHERE id = ? AND result IS NULL
DeleteMatches(b, bet_id) == {i \in DOMAIN b : i = bet_id /\ b[i].result = Pending}

\* the UPDATE without its `AND result IS NULL`
EditMatchesAnyResult(b, bet_id) == {i \in DOMAIN b : i = bet_id}

\* UPDATE bets SET sport, team, odds, amount, potential_win
\* WHERE id = ? AND result IS NULL
EditMatches(b, bet_id) == {i \in DOMAIN b : i = bet_id /\ b[i].result = Pending}

\* UPDATE bets SET result = ? WHERE id = ?
ResultMatches(b, bet_id) == {i \in DOMAIN b : i = bet_id}

\* `result or None` in place of `1 if result else 0`: a loss stored as NULL
ResultValueOrNull(result) == IF result THEN Won ELSE Pending

\* 1 if result else 0
ResultValue(result) == IF result THEN Won ELSE Lost

--------------------------------------------------------------------------
(* The statistics queries *)

RECURSIVE IdsAsc(_)
\* the rowids of a set in the order a table scan visits them
IdsAsc(S) ==
    IF S = {} THEN <<>>
    ELSE LET m == CHOOSE x \in S : \A y \in S : x <= y
         IN  <<m>> \o IdsAsc(S \ {m})

\* SELECT ... FROM bets: the rows in rowid order
Rows(b) == LET ids == IdsAsc(DOMAIN b) IN [k \in 1..Len(ids) |-> b[ids[k]]]

IsResolved(row) == row.result # Pending

RECURSIVE FSum(_)
\* the float accumulator of SUM(): the values added one by one, first to last
FSum(vals) ==
    IF Len(vals) = 0 THEN 0
    ELSE FAdd(FSum(SubSeq(vals, 1, Len(vals) - 1)), vals[Len(vals)])

\* SUM(expr): NULL (the empty tuple here) over no rows
SqlSum(vals) == IF Len(vals) = 0 THEN <<>> ELSE <<FSum(vals)>>

RECURSIVE ISum(_)
\* SUM() over integers
ISum(vals) == IF Len(vals) = 0 THEN 0 ELSE vals[1] + ISum(Tail(vals))

SqlISum(vals) == IF Len(vals) = 0 THEN <<>> ELSE <<ISum(vals)>>

\* Python's `x or 0` on a fetched column
OrZero(col) == IF col = <<>> THEN 0 ELSE IF col[1] = 0 THEN 0 ELSE col[1]

\* CASE WHEN result = 1 THEN 1 ELSE 0 END
WinTerm(row) == IF row.result = Won THEN 1 ELSE 0

\* CASE WHEN result IS NULL THEN amount ELSE 0 END
PendingTerm(row) == IF row.result = Pending THEN row.amount ELSE 0

\* CASE WHEN result IS NOT NULL THEN amount ELSE 0 END
CompletedTerm(row) == IF row.result # Pending THEN row.amount ELSE 0

\* the CASE without its `WHEN result = 0 THEN -amount`
ProfitTermWinsOnly(row) == IF row.result = Won THEN row.potential_win ELSE 0

\* CASE WHEN result = 1 THEN potential_win WHEN result = 0 THEN -amount ELSE 0 END
ProfitTerm(row) ==
    IF row.result = Won THEN row.potential_win
    ELSE IF row.result = Lost THEN FNeg(row.amount)
    ELSE 0

\* Database.get_statistics
get_statistics(b) ==
    LET all       == Rows(b)
        completed == SelectSeq(all, IsResolved)
        col(term(_), rows) == [k \in 1..Len(rows) |-> term(rows[k])]
        amountOf(row) == row.amount
    IN  [total_bets |-> Len(all),
         completed_bets |-> OrZero(<<Len(completed)>>),
         wins |-> OrZero(SqlISum(col(WinTerm, completed))),
         total_wagered |-> OrZero(SqlSum(col(amountOf, all))),
         pending_wagers |-> OrZero(SqlSum(col(PendingTerm, all))),
         completed_wagers |-> OrZero(SqlSum(col(CompletedTerm, all))),
         total_profit |-> OrZero(SqlSum(col(ProfitTerm, all)))]

\* the sport labels of the model in the order of SQLite's BINARY collation
SportOrder == <<"", "NBA", "NFL">>

\* Database.get_all_sports: SELECT DISTINCT sport FROM bets ORDER BY sport
get_all_sports(b) ==
    LET present(sport) == \E i \in DOMAIN b : b[i].sport = sport
    IN  SelectSeq(SportOrder, present)

\* Database.get_statistics_by_sport
get_statistics_by_sport(b, sport) ==
    LET ofSport(row) == row.sport = sport
        all       == SelectSeq(Rows(b), ofSport)
        completed == SelectSeq(all, IsResolved)
        col(term(_), rows) == [k \in 1..Len(rows) |-> term(rows[k])]
        amountOf(row) == row.amount
    IN  [sport |-> sport,
         total_bets |-> Len(all),
         completed_bets |-> OrZero(<<Len(completed)>>),
         wins |-> OrZero(SqlISum(col(WinTerm, completed))),
         total_wagered |-> OrZero(SqlSum(col(amountOf, all))),
         pending_wagers |-> OrZero(SqlSum(col(PendingTerm, all))),
         completed_wagers |-> OrZero(SqlSum(col(CompletedTerm, all))),
         total_profit |-> OrZero(SqlSum(col(ProfitTerm, all)))]

\* the orders in which the ids S can be listed
Listings(S) ==
    {s \in [1..Cardinality(S) -> S] : \A j, k \in DOMAIN s : j # k => s[j] # s[k]}

\* SELECT id, sport, team, odds, amount, potential_win
PendingTuple(b, i) ==
    [id |-> i, sport |-> b[i].sport, team |-> b[i].team, odds |-> b[i].odds,
     amount |-> b[i].amount, potential_win |-> b[i].potential_win]

\* ORDER BY date without DESC: oldest first
get_pending_bets_oldest_first(b) ==
    LET pending == {i \in DOMAIN b : b[i].result = Pending}
        sorted  == {s \in Listings(pending) :
                      \A j, k \in DOMAIN s : j < k => b[s[j]].date <= b[s[k]].date}
    IN  {[k \in DOMAIN s |-> PendingTuple(b, s[k])] : s \in sorted}

\* the same SELECT without WHERE result IS NULL: settled rows are listed too
get_pending_bets_settled_too(b) ==
    LET listed == DOMAIN b
        sorted == {s \in Listings(listed) :
                     \A j, k \in DOMAIN s : j < k => b[s[j]].date >= b[s[k]].date}
    IN  {[k \in DOMAIN s |-> PendingTuple(b, s[k])] : s \in sorted}

\* Database.get_pending_bets: WHERE result IS NULL ORDER BY date DESC. The
\* results it can return: SQL leaves the order of rows of equal date open
get_pending_bets(b) ==
    LET pending == {i \in DOMAIN b : b[i].result = Pending}
        sorted  == {s \in Listings(pending) :
                      \A j, k \in DOMAIN s : j < k => b[s[j]].date >= b[s[k]].date}
    IN  {[k \in DOMAIN s |-> PendingTuple(b, s[k])] : s \in sorted}

\* Database.get_pending_bets_summary; sports_breakdown is GROUP BY sport
\* ORDER BY count DESC, with the groups of equal count in any order
get_pending_bets_summary(b) ==
    LET pending == SelectSeq(Rows(b), LAMBDA row : row.result = Pending)
        col(term(_), rows) == [k \in 1..Len(rows) |-> term(rows[k])]
        amountOf(row) == row.amount
        winOf(row) == row.potential_win
        sports == {pending[k].sport : k \in DOMAIN pending}
        count(sport) == Cardinality({k \in DOMAIN pending : pending[k].sport = sport})
        sorted == {s \in Listings(sports) :
                     \A j, k \in DOMAIN s : j < k => count(s[j]) >= count(s[k])}
    IN  {[count |-> OrZero(<<Len(pending)>>),
          total_pending |-> OrZero(SqlSum(col(amountOf, pending))),
          total_potential |-> OrZero(SqlSum(col(winOf, pending))),
          sports_breakdown |-> [k \in DOMAIN s |-> <<s[k], count(s[k])>>]] :
         s \in sorted}

\* a SELECT that also deletes the settled rows
AfterSelectPurging(b) == [i \in {j \in DOMAIN b : b[j].result = Pending} |-> b[i]]

\* the table after `with sqlite3.connect(...) as conn:` around SELECTs only:
\* nothing was written, so the commit at the end of the block changes nothing
AfterSelect(b) == b

--------------------------------------------------------------------------
(* The operations of Database *)

\* `with sqlite3.connect(...) as conn`, keeping the first write: the
\* rows stay as written when conn.commit() raises
TransactionWithoutRollback(before, written, outcome) ==
    IF outcome = "execute_fails" THEN before ELSE written

\* `with sqlite3.connect(...) as conn:` around one statement and
\* conn.commit(): the rows as written if the block ends normally, the rows
\* as they were (rollback) if execute or commit raises sqlite3.Error
Transaction(before, written, outcome) ==
    IF outcome = "ok" THEN written ELSE before

\* Bet(sport, team, odds, amount) followed by Database.add_bet(bet); a run
\* holds at most max calls that store a bet and stops the clock at max
add_bet(inputs, ticks, max, outcomes) ==
    /\ Len(issued) < max
    /\ now < max
    /\ \E in \in inputs, tick \in ticks, outcome \in outcomes :
          LET date == now + tick
              bet  == Bet(in.sport, in.team, in.odds, in.amount, date)
              id   == NextRowid(bets, seq)
          IN  /\ now' = date
              /\ bets' = Transaction(bets, InsertRow(bets, id, bet), outcome)
              /\ seq' = Transaction(seq, id, outcome)
              /\ issued' = IF outcome = "ok" THEN Append(issued, id) ELSE issued
              /\ last' = IF outcome = "ok"
                         THEN [op |-> "add", id |-> id, ret |-> "id",
                               raised |-> "none", io |-> outcome]
                         ELSE [op |-> "add", id |-> 0, ret |-> "None",
                               raised |-> "sqlite3.Error", io |-> outcome]
    /\ UNCHANGED calc

\* Database.update_bet_result
update_bet_result(ids, outcomes) ==
    /\ \E bet_id \in ids, result \in BOOLEAN, outcome \in outcomes :
          LET hit == ResultMatches(bets, bet_id)
              written == [i \in DOMAIN bets |->
                            IF i \in hit
                            THEN [bets[i] EXCEPT !.result = ResultValue(result)]
                            ELSE bets[i]]
          IN  /\ bets' = Transaction(bets, written, outcome)
              /\ last' = [op |-> "resolve", id |-> bet_id, ret |-> "None",
                          raised |-> IF outcome = "ok" THEN "none"
                                     ELSE "sqlite3.Error",
                          io |-> outcome]
    /\ UNCHANGED <<seq, now, issued, calc>>

\* Database.remove_pending_bet
remove_pending_bet(ids, outcomes) ==
    /\ \E bet_id \in ids, outcome \in outcomes :
          LET hit == DeleteMatches(bets, bet_id)
              written == [i \in DOMAIN bets \ hit |-> bets[i]]
          IN  /\ bets' = Transaction(bets, written, outcome)
              /\ last' = [op |-> "remove", id |-> bet_id,
                          ret |-> IF outcome = "ok" /\ Cardinality(hit) > 0
                                  THEN "True" ELSE "False",
                          raised |-> "none", io |-> outcome]
    /\ UNCHANGED <<seq, now, issued, calc>>

\* Database.edit_pending_bet
edit_pending_bet(ids, inputs, outcomes) ==
    /\ \E bet_id \in ids, in \in inputs, outcome \in outcomes :
          LET sport  == in.sport
              team   == in.team
              odds   == in.odds
              amount == in.amount
              potential_win == Database_calculate_potential_win(odds, amount)
              hit == EditMatches(bets, bet_id)
              written == [i \in DOMAIN bets |->
                            IF i \in hit
                            THEN [bets[i] EXCEPT !.sport = sport, !.team = team,
                                                 !.odds = odds, !.amount = amount,
                                                 !.potential_win = potential_win]
                            ELSE bets[i]]
          IN  /\ bets' = Transaction(bets, written, outcome)
              /\ last' = [op |-> "edit", id |-> bet_id,
                          ret |-> IF outcome = "ok" /\ Cardinality(hit) > 0
                                  THEN "True" ELSE "False",
                          raised |-> "none", io |-> outcome]
    /\ UNCHANGED <<seq, now, issued, calc>>

\* the storage works
Works == {"ok"}

AddAny == add_bet(BetInputs, Ticks, MaxAdds, Works) /\ UNCHANGED tty

Resolve == update_bet_result(Ids, Works) /\ UNCHANGED tty

Remove == remove_pending_bet(Ids, Works) /\ UNCHANGED tty

Edit == edit_pending_bet(Ids, BetInputs, Works) /\ UNCHANGED tty

\* Database.__init__ on a fresh bets.db
Init ==
    /\ bets = EmptyTable
    /\ seq = 0
    /\ now = 0
    /\ last = NoCall
    /\ issued = <<>>
    /\ calc = CalcIdle
    /\ tty = NoTty

Next ==
    \/ AddAny
    \/ Resolve
    \/ Remove
    \/ Edit

Spec == Init /\ [][Next]_vars

--------------------------------------------------------------------------
(* Wagers placed through the menu and then resolved: add and resolve only *)

\* stakes whose sums need more significant bits than a float has
WagerInputs ==
    { [sport |-> "NFL", team |-> "Eagles", odds |-> Flt(150), amount |-> Flt(100)],
      [sport |-> "NBA", team |-> "Lakers", odds |-> Flt(-200), amount |-> Flt(29)] }

WagerIds == 1..MaxWagers

AddWager == add_bet(WagerInputs, Ticks, MaxWagers, Works) /\ UNCHANGED tty

ResolveWager == update_bet_result(WagerIds, Works) /\ UNCHANGED tty

NextWagers ==
    \/ AddWager
    \/ ResolveWager

SpecWagers == Init /\ [][NextWagers]_vars

--------------------------------------------------------------------------
(* The ledger on a storage that can fail *)

\* how a call's transaction ends: it commits, cursor.execute raises
\* sqlite3.Error, or conn.commit raises it
Outcomes == {"ok", "execute_fails", "commit_fails"}

StorageInputs ==
    { [sport |-> "NFL", team |-> "Eagles", odds |-> Flt(150), amount |-> Flt(100)],
      [sport |-> "NBA", team |-> "Lakers", odds |-> Flt(-200), amount |-> Flt(50)] }

AddStored == add_bet(StorageInputs, Ticks, MaxAdds, Outcomes) /\ UNCHANGED tty

ResolveStored == update_bet_result(Ids, Outcomes) /\ UNCHANGED tty

RemoveStored == remove_pending_bet(Ids, Outcomes) /\ UNCHANGED tty

EditStored == edit_pending_bet(Ids, StorageInputs, Outcomes) /\ UNCHANGED tty

NextStorage ==
    \/ AddStored
    \/ ResolveStored
    \/ RemoveStored
    \/ EditStored

SpecStorage == Init /\ [][NextStorage]_vars

--------------------------------------------------------------------------
(* The ledger with its queries, on a clock that two calls can read alike *)

QueryInputs ==
    { [sport |-> "NFL", team |-> "Eagles", odds |-> Flt(150), amount |-> Flt(100)],
      [sport |-> "NBA", team |-> "Lakers", odds |-> Flt(-200), amount |-> Flt(50)] }

\* datetime.now() read twice within its resolution, or later
CoarseTicks == {0, 1}

\* what a query leaves behind: its name, its argument, what it returned,
\* and, when the call before was the same query, what that one returned
Answer(op, arg, ret) ==
    LET again == /\ last.op = op
                 /\ last.arg = arg
    IN  [op |-> op, id |-> 0, arg |-> arg, ret |-> ret, raised |-> "none",
         io |-> "ok", again |-> again,
         before |-> IF again THEN last.ret ELSE ret]

\* the read-only methods of Database
IsQuery(call) ==
    call.op \in {"get_statistics", "get_statistics_by_sport", "get_all_sports",
                 "get_pending_bets", "get_pending_bets_summary"}

\* a call of a read-only method that may return any of rets
Query(op, arg, rets) ==
    /\ \E ret \in rets : last' = Answer(op, arg, ret)
    /\ bets' = AfterSelect(bets)
    /\ UNCHANGED <<seq, now, issued, calc>>

QueryStatistics == Query("get_statistics", "", {get_statistics(bets)}) /\ UNCHANGED tty

QueryStatisticsBySport ==
    /\ \E k \in DOMAIN SportOrder :
          Query("get_statistics_by_sport", SportOrder[k],
                {get_statistics_by_sport(bets, SportOrder[k])})
    /\ UNCHANGED tty

QueryAllSports == Query("get_all_sports", "", {get_all_sports(bets)}) /\ UNCHANGED tty

QueryPendingBets == Query("get_pending_bets", "", get_pending_bets(bets)) /\ UNCHANGED tty

QueryPendingBetsSummary ==
    /\ Query("get_pending_bets_summary", "", get_pending_bets_summary(bets))
    /\ UNCHANGED tty

AddListed == add_bet(QueryInputs, CoarseTicks, MaxAdds, Works) /\ UNCHANGED tty

EditListed == edit_pending_bet(Ids, QueryInputs, Works) /\ UNCHANGED tty

NextQueries ==
    \/ AddListed
    \/ Resolve
    \/ Remove
    \/ EditListed
    \/ QueryStatistics
    \/ QueryStatisticsBySport
    \/ QueryAllSports
    \/ QueryPendingBets
    \/ QueryPendingBetsSummary

SpecQueries == Init /\ [][NextQueries]_vars

--------------------------------------------------------------------------
(* The menu of main(): one action per choice, from the prompt for the
   choice to the next prompt. Choice 8 ends the process and an unknown
   choice only prints a message; neither touches the table. *)

\* what choice 1 can hand to Bet(): any sport, team and odds, and an amount
\* that passed get_valid_float, which asks again until the value is positive
MenuInputs ==
    { [sport |-> "NFL", team |-> "Eagles", odds |-> Flt(150), amount |-> Flt(100)],
      [sport |-> "NBA", team |-> "Lakers", odds |-> Flt(-200), amount |-> Flt(50)] }

\* what is typed at the four prompts of choice 5; "" and <<>> are a bare
\* Enter, <<x>> is a line that float() parses to x. Each prompt is answered
\* with Enter in one of the two and with a value in the other
EditTyped ==
    { [sport |-> "NBA", team |-> "", odds |-> <<>>, amount |-> <<Flt(50)>>],
      [sport |-> "", team |-> "Lakers", odds |-> <<Flt(-200)>>, amount |-> <<>>] }

\* the numbers typed at "Enter bet number" and "Enter sport number": each
\* row that can be listed, and one number past the list
Numbers == 1..(MaxAdds + 1)

\* no number was asked for
NoNumber == [number |-> 0]

\* input(...) without `or current`
OrCurrentDropped(typed, current) == typed

\* input(...) or current
OrCurrent(typed, current) == IF typed = "" THEN current ELSE typed

\* float(new_input) if new_input else current
FloatOrCurrent(typed, current) == IF typed = <<>> THEN current ELSE typed[1]

\* what display_statistics prints, line by line; <<>> is a line left out
display_statistics(stats, by_sport) ==
    [text |-> "Betting Statistics",
     sport |-> IF by_sport THEN <<stats.sport>> ELSE <<>>,
     total_bets |-> stats.total_bets,
     completed |-> IF stats.completed_bets > 0
                   THEN <<[completed_bets |-> stats.completed_bets,
                           wins |-> stats.wins,
                           losses |-> stats.completed_bets - stats.wins]>>
                   ELSE <<>>,
     win_rate |-> IF stats.completed_bets > 0
                  THEN <<FMul(FDiv(Flt(stats.wins), Flt(stats.completed_bets)),
                              Flt(100))>>
                  ELSE <<>>,
     total_wagered |-> stats.total_wagered,
     pending_wagers |-> stats.pending_wagers,
     completed_wagers |-> stats.completed_wagers,
     total_profit |-> stats.total_profit,
     break_even |-> IF stats.total_profit < 0
                    THEN <<Abs(stats.total_profit)>> ELSE <<>>]

\* the terminal after a choice
Say(menu, typed, shown) ==
    tty' = [menu |-> menu, typed |-> typed, shown |-> shown]

\* db.get_pending_bets() was the only call of the choice
Listed(pending_bets) == Query("get_pending_bets", "", {pending_bets})

\* choice 1
Menu1 ==
    /\ add_bet(MenuInputs, Ticks, MaxAdds, Works)
    /\ Say(1, NoNumber, [text |-> "Bet recorded!"])

\* choice 2
Menu2 ==
    \E pending_bets \in get_pending_bets(bets) :
        IF Len(pending_bets) = 0
        THEN /\ Listed(pending_bets)
             /\ Say(2, NoNumber, [text |-> "No pending bets to update!"])
        ELSE \E number \in Numbers :
                IF 1 <= number /\ number <= Len(pending_bets)
                THEN /\ update_bet_result({pending_bets[number].id}, Works)
                     /\ Say(2, [number |-> number],
                            [text |-> "Bet updated successfully!"])
                ELSE /\ Listed(pending_bets)
                     /\ Say(2, [number |-> number], [text |-> "Invalid bet number!"])

\* choice 3
Menu3 ==
    LET stats == get_statistics(bets)
    IN  /\ Query("get_statistics", "", {stats})
        /\ IF stats.total_bets = 0
           THEN Say(3, NoNumber, [text |-> "No bets recorded yet!"])
           ELSE Say(3, NoNumber, display_statistics(stats, FALSE))

\* choice 4
Menu4 ==
    LET sports == get_all_sports(bets)
    IN  IF Len(sports) = 0
        THEN /\ Query("get_all_sports", "", {sports})
             /\ Say(4, NoNumber, [text |-> "No bets recorded yet!"])
        ELSE \E number \in Numbers :
                IF 1 <= number /\ number <= Len(sports)
                THEN LET stats == get_statistics_by_sport(bets, sports[number])
                     IN  /\ Query("get_statistics_by_sport", sports[number], {stats})
                         /\ Say(4, [number |-> number],
                                display_statistics(stats, TRUE))
                ELSE /\ Query("get_all_sports", "", {sports})
                     /\ Say(4, [number |-> number],
                            [text |-> "Invalid sport number!"])

\* choice 5
Menu5 ==
    \E pending_bets \in get_pending_bets(bets) :
        IF Len(pending_bets) = 0
        THEN /\ Listed(pending_bets)
             /\ Say(5, NoNumber, [text |-> "No pending bets to edit!"])
        ELSE \E number \in Numbers :
                IF 1 <= number /\ number <= Len(pending_bets)
                THEN \E typed \in EditTyped :
                        LET bet_id == pending_bets[number].id
                            current_sport == pending_bets[number].sport
                            current_team == pending_bets[number].team
                            current_odds == pending_bets[number].odds
                            current_amount == pending_bets[number].amount
                            new_sport == OrCurrent(typed.sport, current_sport)
                            new_team == OrCurrent(typed.team, current_team)
                            new_odds == FloatOrCurrent(typed.odds, current_odds)
                            new_amount == FloatOrCurrent(typed.amount, current_amount)
                        IN  /\ edit_pending_bet({bet_id},
                                                {[sport |-> new_sport, team |-> new_team,
                                                  odds |-> new_odds,
                                                  amount |-> new_amount]},
                                                Works)
                            /\ Say(5, [number |-> number, sport |-> typed.sport,
                                       team |-> typed.team, odds |-> typed.odds,
                                       amount |-> typed.amount],
                                   [text |-> IF last'.ret = "True"
                                             THEN "Bet updated successfully!"
                                             ELSE "Failed to update bet. Please try again."])
                ELSE /\ Listed(pending_bets)
                     /\ Say(5, [number |-> number], [text |-> "Invalid bet number!"])

\* choice 6
Menu6 ==
    \E pending_bets \in get_pending_bets(bets) :
        IF Len(pending_bets) = 0
        THEN /\ Listed(pending_bets)
             /\ Say(6, NoNumber, [text |-> "No pending bets to remove!"])
        ELSE \E number \in Numbers :
                IF 1 <= number /\ number <= Len(pending_bets)
                THEN \E confirm \in BOOLEAN :
                        IF confirm
                        THEN /\ remove_pending_bet({pending_bets[number].id}, Works)
                             /\ Say(6, [number |-> number],
                                    [text |-> IF last'.ret = "True"
                                              THEN "Bet removed successfully!"
                                              ELSE "Failed to remove bet. Please try again."])
                        ELSE /\ Listed(pending_bets)
                             /\ Say(6, [number |-> number],
                                    [text |-> "Bet removal cancelled."])
                ELSE /\ Listed(pending_bets)
                     /\ Say(6, [number |-> number], [text |-> "Invalid bet number!"])

\* choice 7: get_pending_bets_detailed lists the rows of get_pending_bets
\* with their dates, then get_pending_bets_summary is the last call
Menu7 ==
    \E summary \in get_pending_bets_summary(bets) :
        /\ Query("get_pending_bets_summary", "", {summary})
        /\ IF summary.count = 0
           THEN Say(7, NoNumber, [text |-> "No pending bets found."])
           ELSE Say(7, NoNumber,
                    [text |-> "Pending Bets Summary", count |-> summary.count,
                     total_pending |-> summary.total_pending,
                     total_potential |-> summary.total_potential,
                     sports_breakdown |-> summary.sports_breakdown])

NextMenu ==
    \/ Menu1
    \/ Menu2
    \/ Menu3
    \/ Menu4
    \/ Menu5
    \/ Menu6
    \/ Menu7

SpecMenu == Init /\ [][NextMenu]_vars

--------------------------------------------------------------------------
(* The calculators called on their own *)

CalcOdds == {Flt(-200), Flt(-110), Flt(-100), Flt(-50), 0,
             Flt(50), Flt(100), Flt(110), Flt(150)}
CalcAmounts == {Flt(-50), Flt(-1), 0, Scale \div 2, Flt(1), Flt(33), Flt(100), Flt(110)}

InitCalc ==
    /\ bets = EmptyTable
    /\ seq = 0
    /\ now = 0
    /\ last = NoCall
    /\ issued = <<>>
    /\ tty = NoTty
    /\ \E odds \in CalcOdds, amount \in CalcAmounts :
          calc = [pc |-> "call", odds |-> odds, amount |-> amount,
                  bet |-> 0, bet_raised |-> "none", db |-> 0, db_raised |-> "none"]

\* Bet(...)._calculate_potential_win() and
\* Database._calculate_potential_win(odds, amount) on the same arguments
Calculate ==
    /\ calc.pc = "call"
    /\ calc' = [calc EXCEPT
                  !.pc = "done",
                  !.bet = Bet_calculate_potential_win(calc.odds, calc.amount),
                  !.bet_raised = Bet_calculate_raised(calc.odds, calc.amount),
                  !.db = Database_calculate_potential_win(calc.odds, calc.amount),
                  !.db_raised = Database_calculate_raised(calc.odds, calc.amount)]
    /\ UNCHANGED <<bets, seq, now, last, issued, tty>>

NextCalc == Calculate

SpecCalc == InitCalc /\ [][NextCalc]_vars

--------------------------------------------------------------------------
(* Properties *)

Stored == DOMAIN bets
Resolved(i) == bets[i].result # Pending

\* C1: once a bet is Won or Lost, a later resolve on its id fails with
\* AlreadyResolved and leaves the result as it was.
C1_ResolveIsSingleFire ==
    [][\A i \in Stored :
          (Resolved(i) /\ last'.op = "resolve" /\ last'.id = i)
          => /\ last'.raised = "AlreadyResolved"
             /\ i \in DOMAIN bets'
             /\ bets'[i].result = bets[i].result]_vars

\* C2: edit and remove called with the id of a Won or Lost bet return false
\* and leave the bet present with every column unchanged.
C2_ResolvedBetIsImmutable ==
    [][\A i \in Stored :
          (Resolved(i) /\ last'.op \in {"edit", "remove"} /\ last'.id = i)
          => /\ last'.ret = "False"
             /\ i \in DOMAIN bets'
             /\ bets'[i] = bets[i]]_vars

\* C2 witness: an edit was called on a resolved bet and came back false
C2_EditOfResolvedRefused ==
    /\ last.op = "edit"
    /\ last.id \in Stored
    /\ Resolved(last.id)
    /\ last.ret = "False"

\* C3: a bet stored by add is Pending right after the add, and no operation
\* takes a stored bet's result from Won or Lost back to Pending.
C3_PendingOnceThenNever ==
    [][/\ last'.op = "add" /\ Len(issued') > Len(issued)
          => /\ last'.id \in DOMAIN bets'
             /\ bets'[last'.id].result = Pending
       /\ \A i \in Stored :
            (Resolved(i) /\ i \in DOMAIN bets') => bets'[i].result # Pending]_vars

\* C3 witness: a bet was added, and is Pending, beside a bet already resolved
C3_AddedBesideResolved ==
    /\ last.op = "add"
    /\ bets[last.id].result = Pending
    /\ \E j \in Stored : Resolved(j)

\* C4: after any sequence of add followed by resolve, the statistics
\* satisfy total_wagered = pending_wagers + completed_wagers exactly.
C4_WageredSplitsExactly ==
    LET s == get_statistics(bets)
    IN  s.total_wagered = FAdd(s.pending_wagers, s.completed_wagers)

\* C5: every stored bet has amount > 0, odds # 0 and non-empty sport and
\* team: add and edit reject anything else.
C5_StoredBetsAreValid ==
    \A i \in Stored :
        /\ bets[i].amount > 0
        /\ bets[i].odds # 0
        /\ bets[i].sport # ""
        /\ bets[i].team # ""

\* C6: the calculation returns (odds / 100) * amount for odds >= 0 and
\* (100 / |odds|) * amount for odds < 0, amount > 0, and the calculator used
\* at creation and the one used on edit return the same value on every input.
C6_PotentialWinFormula ==
    calc.pc = "done" =>
        /\ (calc.odds >= 0 /\ calc.amount > 0)
           => calc.bet = FMul(FDiv(calc.odds, Flt(100)), calc.amount)
        /\ (calc.odds < 0 /\ calc.amount > 0)
           => calc.bet = FMul(FDiv(Flt(100), -calc.odds), calc.amount)
        /\ calc.bet = calc.db
        /\ calc.bet_raised = calc.db_raised

\* C6 witness: -200 on 100 has been calculated, by both calculators, as 50
C6_FavouriteCalculated ==
    /\ calc.pc = "done"
    /\ calc.odds = Flt(-200)
    /\ calc.amount = Flt(100)
    /\ calc.bet = Flt(50)
    /\ calc.db = Flt(50)

\* C7: the calculation fails with InvalidOdds when odds = 0 and with
\* InvalidAmount when amount <= 0, and returns no payout for such inputs.
C7_CalculationRejectsBadInput ==
    LET Rejected(raised) ==
            /\ (calc.odds = 0 /\ calc.amount > 0) => raised = "InvalidOdds"
            /\ (calc.odds # 0 /\ calc.amount <= 0) => raised = "InvalidAmount"
            /\ (calc.odds = 0 /\ calc.amount <= 0)
               => raised \in {"InvalidOdds", "InvalidAmount"}
    IN  calc.pc = "done" => (Rejected(calc.bet_raised) /\ Rejected(calc.db_raised))

\* C8: resolve called with an id that is not in the ledger surfaces NotFound
\* and leaves every stored bet unchanged.
C8_ResolveOfMissingIdIsNotFound ==
    [][(last'.op = "resolve" /\ last'.id \notin Stored)
          => (last'.raised = "NotFound" /\ bets' = bets)]_vars

\* C9: the id add returns differs from the id of every earlier add, also of
\* adds whose bet has since been removed.
C9_IdsAreNeverReused ==
    \A j, k \in 1..Len(issued) : j # k => issued[j] # issued[k]

\* C9 witness: a bet was added after the bet that held the largest id was removed
C9_AddedAfterRemoval ==
    /\ Len(issued) = 2
    /\ last.op = "add"
    /\ issued[1] \notin Stored
    /\ issued[2] \in Stored

RECURSIVE ProfitUpTo(_)
\* the profit of the bets with ids 1..n, added up in id order
ProfitUpTo(n) ==
    IF n = 0 THEN 0
    ELSE IF n \notin Stored THEN ProfitUpTo(n - 1)
    ELSE FAdd(ProfitUpTo(n - 1),
              CASE bets[n].result = Won -> bets[n].potential_win
                [] bets[n].result = Lost -> -bets[n].amount
                [] OTHER -> 0)

\* C10: get_statistics reports total_profit as the sum over the stored bets
\* of potential_win if Won, -amount if Lost, 0 if Pending (the float sum, in
\* id order), wins as the number of Won bets and completed_bets as the
\* number of bets that are not Pending.
C10_ProfitWinsAndCompleted ==
    LET s == get_statistics(bets)
    IN  /\ s.total_profit = ProfitUpTo(seq)
        /\ s.wins = Cardinality({i \in Stored : bets[i].result = Won})
        /\ s.completed_bets = Cardinality({i \in Stored : bets[i].result # Pending})

\* C10 witness: a won bet and a lost bet are stored and the profit is not zero
C10_WonAndLostStored ==
    /\ \E i, j \in Stored : bets[i].result = Won /\ bets[j].result = Lost
    /\ get_statistics(bets).total_profit # 0

\* C12: a storage failure during add, edit, remove or resolve leaves the
\* ledger exactly as it was before the call, and add either stores the
\* complete bet and returns its id or raises with nothing stored.
C12_FailureLeavesNoPartialWrite ==
    [][/\ (last'.op \in {"add", "edit", "remove", "resolve"} /\ last'.io # "ok")
          => (bets' = bets /\ seq' = seq /\ issued' = issued)
       /\ (last'.op = "add" /\ now' # now)
          => \/ /\ last'.raised = "none"
                /\ last'.id \notin Stored
                /\ DOMAIN bets' = Stored \cup {last'.id}
                /\ DOMAIN bets'[last'.id] =
                     {"sport", "team", "odds", "amount", "potential_win",
                      "result", "date"}
                /\ issued' = Append(issued, last'.id)
                /\ \A i \in Stored : bets'[i] = bets[i]
             \/ /\ last'.raised = "sqlite3.Error"
                /\ bets' = bets
                /\ issued' = issued]_vars

\* C12 witness: with bets stored, an add failed at commit and raised
C12_AddFailedAtCommit ==
    /\ last.op = "add"
    /\ last.io = "commit_fails"
    /\ last.raised = "sqlite3.Error"
    /\ Stored # {}

\* C13: remove on an id that exists and is Pending deletes exactly that
\* bet, returns true and leaves every other bet unchanged; on an id that
\* does not exist it returns false and changes nothing.
C13_RemoveDeletesExactlyThePendingBet ==
    [][last'.op = "remove" =>
         /\ (last'.id \in Stored /\ ~Resolved(last'.id))
            => /\ last'.ret = "True"
               /\ DOMAIN bets' = Stored \ {last'.id}
               /\ \A i \in DOMAIN bets' : bets'[i] = bets[i]
         /\ (last'.id \notin Stored)
            => (last'.ret = "False" /\ bets' = bets)]_vars

\* C13 witness: a remove returned true, its bet is gone and another is left
C13_RemovedOneOfTwo ==
    /\ last.op = "remove"
    /\ last.ret = "True"
    /\ last.id \notin Stored
    /\ Stored # {}

\* C15: in every state every stored bet's potential_win is the potential-win
\* calculation of its stored odds and amount; only an edit of a Pending bet
\* changes odds, amount or potential_win.
C15_PotentialWinFollowsOddsAndAmount ==
    [][/\ \A i \in DOMAIN bets' :
            bets'[i].potential_win =
                IF bets'[i].odds >= 0
                THEN FMul(FDiv(bets'[i].odds, Flt(100)), bets'[i].amount)
                ELSE FMul(FDiv(Flt(100), -bets'[i].odds), bets'[i].amount)
       /\ \A i \in Stored \cap DOMAIN bets' :
            (last'.op # "edit" \/ Resolved(i) \/ last'.id # i)
            => /\ bets'[i].odds = bets[i].odds
               /\ bets'[i].amount = bets[i].amount
               /\ bets'[i].potential_win = bets[i].potential_win]_vars

\* C15 witness: an edit gave a bet the odds -200 on 50 and its potential_win is 25
C15_EditRecomputed ==
    /\ last.op = "edit"
    /\ last.ret = "True"
    /\ last.id \in Stored
    /\ bets[last.id].odds = Flt(-200)
    /\ bets[last.id].amount = Flt(50)
    /\ bets[last.id].potential_win = Flt(25)
    /\ \E j \in Stored : bets[j].odds # Flt(-200)

C18_SportsAddUpToOverall ==
    LET sports  == get_all_sports(bets)
        by(k)   == get_statistics_by_sport(bets, sports[k])
        overall == get_statistics(bets)
        counts(field(_)) == ISum([k \in DOMAIN sports |-> field(by(k))])
        totals(field(_)) == FSum([k \in DOMAIN sports |-> field(by(k))])
        total_bets(st) == st.total_bets
        completed_bets(st) == st.completed_bets
        wins(st) == st.wins
        total_wagered(st) == st.total_wagered
        pending_wagers(st) == st.pending_wagers
        completed_wagers(st) == st.completed_wagers
        total_profit(st) == st.total_profit
    IN  /\ counts(total_bets) = overall.total_bets
        /\ counts(completed_bets) = overall.completed_bets
        /\ counts(wins) = overall.wins
        /\ totals(total_wagered) = overall.total_wagered
        /\ totals(pending_wagers) = overall.pending_wagers
        /\ totals(completed_wagers) = overall.completed_wagers
        /\ totals(total_profit) = overall.total_profit

\* C14: whenever no stored bet is resolved (completed_bets = 0), the
\* statistics report a win rate of 0; otherwise they report
\* wins / completed_bets * 100.
C14_WinRateZeroWithoutCompleted ==
    (tty.menu \in {3, 4} /\ tty.shown.text = "Betting Statistics")
        => tty.shown.win_rate =
              <<IF last.ret.completed_bets = 0
                THEN Flt(0)
                ELSE FMul(FDiv(Flt(last.ret.wins), Flt(last.ret.completed_bets)),
                          Flt(100))>>

\* C16: an edit applied to a Pending bet through choice 5 changes only that
\* bet's sport, team, odds, amount and potential_win: a field answered with
\* a bare Enter keeps its value and a typed field takes the typed value;
\* the bet's id, result and date and every other stored bet are unchanged.
C16_EditChangesOnlyTheTypedFields ==
    [][(tty'.menu = 5 /\ last'.op = "edit"
          /\ last'.id \in Stored /\ ~Resolved(last'.id))
        => LET i == last'.id
               typed == tty'.typed
           IN  /\ last'.ret = "True"
               /\ DOMAIN bets' = Stored
               /\ \A j \in Stored \ {i} : bets'[j] = bets[j]
               /\ DOMAIN bets'[i] = DOMAIN bets[i]
               /\ bets'[i].result = bets[i].result
               /\ bets'[i].date = bets[i].date
               /\ bets'[i].sport = IF typed.sport = "" THEN bets[i].sport
                                   ELSE typed.sport
               /\ bets'[i].team = IF typed.team = "" THEN bets[i].team
                                  ELSE typed.team
               /\ bets'[i].odds = IF typed.odds = <<>> THEN bets[i].odds
                                  ELSE typed.odds[1]
               /\ bets'[i].amount = IF typed.amount = <<>> THEN bets[i].amount
                                    ELSE typed.amount[1]
               /\ seq' = seq
      ]_vars

\* C16 happens: beside another stored bet, an NFL bet on the Eagles was
\* edited with the sport and the amount left out and the team and the odds
\* typed
C16_EditKeptSportAndAmount ==
    /\ tty.menu = 5
    /\ last.op = "edit"
    /\ last.ret = "True"
    /\ tty.typed.sport = ""
    /\ tty.typed.amount = <<>>
    /\ Cardinality(Stored) = 2
    /\ last.id \in Stored
    /\ bets[last.id].sport = "NFL"
    /\ bets[last.id].team = "Lakers"
    /\ bets[last.id].odds = Flt(-200)
    /\ bets[last.id].amount = Flt(100)

\* C19: driven through the menu only, choice 2 calls update_bet_result only
\* with the id of a bet that is Pending at that moment, and no choice of the
\* menu overwrites a Won or Lost result: each bet is resolved at most once.
C19_MenuResolvesPendingOnly ==
    [][/\ (tty'.menu = 2 /\ last'.op = "resolve")
            => (last'.id \in Stored /\ bets[last'.id].result = Pending)
       /\ \A i \in Stored :
             Resolved(i) => (i \in DOMAIN bets' /\ bets'[i].result = bets[i].result)
      ]_vars

\* C19 happens: choice 2 has just resolved a bet while another stored bet
\* was already Won or Lost
C19_SecondBetResolvedByMenu ==
    /\ tty.menu = 2
    /\ last.op = "resolve"
    /\ Cardinality(Stored) = 2
    /\ \A i \in Stored : Resolved(i)

====
